---- MODULE Spec2Model ----
(***************************************************************************)
(* A model of the picture-processing unit of rustness_monster              *)
(* (src/src/ppu/ppu.rs): the register file of NesPPU with its two write    *)
(* latches, the buffered PPUDATA port, nametable and palette mirroring,    *)
(* and the scanline tick engine.                                           *)
(*                                                                         *)
(* A Rust panic (unimplemented!, panic!, an index out of bounds) aborts    *)
(* the call that raised it; the model records it in `fault` and the PPU    *)
(* takes no further step.                                                  *)
(***************************************************************************)
EXTENDS Integers, Sequences, FiniteSets, TLC

VARIABLES
    chr_rom,        \* NesPPU.chr_rom: [len, zero]; its bytes are ChrRomByte
    mirroring,      \* NesPPU.mirroring
    ctrl,           \* NesPPU.ctrl, the bits of the control register
    mask,           \* NesPPU.mask, the bits of the mask register
    status,         \* NesPPU.status, the bits of the status register
    oam_addr,       \* NesPPU.oam_addr
    scroll,         \* NesPPU.scroll: [scroll_x, scroll_y, latch]
    addr,           \* NesPPU.addr: [value |-> <<hi, lo>>, hi_ptr]
    vram,           \* NesPPU.vram; cells outside DOMAIN hold their initial 0
    oam_data,       \* NesPPU.oam_data; cells outside DOMAIN hold their initial 0
    line,           \* NesPPU.line
    cycles,         \* NesPPU.cycles
    nmi_interrupt,  \* NesPPU.nmi_interrupt: None or 1 (Some(1))
    palette_table,  \* NesPPU.palette_table; cells outside DOMAIN hold 0
    read_data_buf,  \* NesPPU.read_data_buf
    fault,          \* "" or the panic that aborted the program
    ret,            \* value returned by the last call (None for a unit call)
    hist,           \* history of the calls made so far (see Hist_new)
    cpu,            \* struct CPU: [register_a, register_x, register_y,
                    \*   stack_pointer, program_counter, flags, memory]
    program         \* the Vec<u8> passed to CPU::interpret

ppu == <<chr_rom, mirroring, ctrl, mask, status, oam_addr, scroll, addr, vram,
         oam_data, line, cycles, nmi_interrupt, palette_table, read_data_buf>>

vars == <<ppu, fault, ret, hist, cpu, program>>

\* Option::None, and the unit return of a call that returns nothing; a
\* call returning bool returns 1 for true and 0 for false
None == -1

(***************************************************************************)
(* Bounds of the model.                                                    *)
(***************************************************************************)
\* PPUDATA accesses allowed after a PPUADDR write before the next one
MaxRun == 2
\* write_to_data calls in one run of the program
MaxWrites == 1
\* write_to_oam_data calls in one run of the program
MaxOamWrites == 2
\* frames whose dots the history counts
MaxFrames == 2
\* Memory::write calls made on cpu.memory directly
MaxMemWrites == 2

(***************************************************************************)
(* Sizes fixed by the program.                                             *)
(***************************************************************************)
VramSize == 2048
PaletteSize == 32
EmptyRomSize == 2048

\* u8 and bit helpers
U8(n) == n % 256
Bit(v, k) == (v \div (2 ^ k)) % 2
WithBit(v, k, on) == v - Bit(v, k) * (2 ^ k) + (IF on THEN 2 ^ k ELSE 0)

(***************************************************************************)
(* The register types of crate::ppu::registers and the Mirroring enum of   *)
(* crate::rom.  Their files are not part of the source snapshot; they are  *)
(* modelled from the specification's description of the registers (4.5)    *)
(* and from the way ppu.rs and its tests use them.                         *)
(***************************************************************************)
Mirroring == {"HORIZONTAL", "VERTICAL", "FOUR_SCREEN"}

\* ControlRegister::update
ctrl_update(value) == value
\* ControlRegister::vram_addr_increment: bit 2 selects 1 or 32
vram_addr_increment(c) == IF Bit(c, 2) = 0 THEN 1 ELSE 32
\* ControlRegister::generate_vblank_nmi: bit 7
generate_vblank_nmi(c) == Bit(c, 7) = 1

\* MaskRegister::update
mask_update(value) == value
\* MaskRegister::show_sprites: bit 4
show_sprites(m) == Bit(m, 4) = 1
\* MaskRegister::show_background: bit 3
show_background(m) == Bit(m, 3) = 1

\* StatusRegister: bit 7 VBlank, bit 6 sprite-0 hit, bit 5 sprite overflow
snapshot(s) == s
is_in_vblank(s) == Bit(s, 7) = 1
set_vblank_status(s, on) == WithBit(s, 7, on)
reset_vblank_status(s) == WithBit(s, 7, FALSE)
set_sprite_zero_hit(s, on) == WithBit(s, 6, on)
is_sprite_zero_hit(s) == Bit(s, 6) = 1

(***************************************************************************)
(* struct Addr                                                             *)
(***************************************************************************)
Addr_new == [value |-> <<0, 0>>, hi_ptr |-> TRUE]

Addr_set(a, data) ==
    [a EXCEPT !.value = <<(data \div 256) % 256, data % 256>>]

Addr_udpate(a, data) ==
    [value  |-> IF a.hi_ptr THEN <<data, a.value[2]>> ELSE <<a.value[1], data>>,
     hi_ptr |-> ~a.hi_ptr]

\* Addr::increment without the carry into the high byte
Addr_increment_nocarry(a, inc) ==
    [a EXCEPT !.value = <<a.value[1], U8(a.value[2] + inc)>>]

Addr_increment(a, inc) ==
    LET lo  == a.value[2]
        lo2 == U8(lo + inc)
    IN  [a EXCEPT !.value = <<IF lo > lo2 THEN U8(a.value[1] + 1) ELSE a.value[1],
                              lo2>>]

\* reset_latch forgetting the reset
Addr_reset_latch_noop(a) == a

Addr_reset_latch(a) == [a EXCEPT !.hi_ptr = TRUE]

Addr_read(a) == a.value[1] * 256 + a.value[2]

(***************************************************************************)
(* struct Scroll                                                           *)
(***************************************************************************)
Scroll_new == [scroll_x |-> 0, scroll_y |-> 0, latch |-> FALSE]

Scroll_write(s, data) ==
    [scroll_x |-> IF ~s.latch THEN data ELSE s.scroll_x,
     scroll_y |-> IF ~s.latch THEN s.scroll_y ELSE data,
     latch    |-> ~s.latch]

Scroll_reset_latch(s) == [s EXCEPT !.latch = FALSE]

(***************************************************************************)
(* impl NesPPU                                                             *)
(***************************************************************************)
\* the two cartridges of the model: new_empty_rom()'s vec![0; 2048], and
\* one 8 KiB CHR bank whose bytes are not zero
EmptyRom == [len |-> EmptyRomSize, zero |-> TRUE]
BankRom == [len |-> 4 * EmptyRomSize, zero |-> FALSE]
ChrRomByte(i) == IF chr_rom.zero THEN 0 ELSE (i % 2) + 1

\* a cell of one of the zero-initialised arrays
Cell(mem, i) == IF i \in DOMAIN mem THEN mem[i] ELSE 0
Store(mem, i, v) == [j \in (DOMAIN mem) \cup {i} |-> IF j = i THEN v ELSE mem[j]]

\* addr & 0b10111111111111
MirrorDown(a) == (a % 4096) + Bit(a, 13) * 8192

\* mirror_vram_addr without the (HORIZONTAL, 1) arm
mirror_vram_addr_nt1(a) ==
    LET mirrored_vram == MirrorDown(a)
        vram_index    == mirrored_vram - 8192
        name_table    == vram_index \div 1024
    IN  CASE mirroring = "VERTICAL" /\ name_table \in {2, 3} -> vram_index - 2048
          [] mirroring = "HORIZONTAL" /\ name_table = 2 -> vram_index - 1024
          [] mirroring = "HORIZONTAL" /\ name_table = 3 -> vram_index - 2048
          [] OTHER -> vram_index

mirror_vram_addr(a) ==
    LET mirrored_vram == MirrorDown(a)
        vram_index    == mirrored_vram - 8192
        name_table    == vram_index \div 1024
    IN  CASE mirroring = "VERTICAL" /\ name_table \in {2, 3} -> vram_index - 2048
          [] mirroring = "HORIZONTAL" /\ name_table = 2 -> vram_index - 1024
          [] mirroring = "HORIZONTAL" /\ name_table = 1 -> vram_index - 1024
          [] mirroring = "HORIZONTAL" /\ name_table = 3 -> vram_index - 2048
          [] OTHER -> vram_index

\* increment_vram_addr without the mirror down of an address above 0x3fff
increment_vram_addr_nowrap(a, c) == Addr_increment(a, vram_addr_increment(c))

\* the address after increment_vram_addr
increment_vram_addr(a, c) ==
    LET b == Addr_increment(a, vram_addr_increment(c))
    IN  IF Addr_read(b) > 16383 THEN Addr_set(b, Addr_read(b) % 16384) ELSE b

(***************************************************************************)
(* History of the calls, kept for the properties and for the model's       *)
(* bounds; no action of the program reads it except through the bounds.    *)
(*   op            the last call                                           *)
(*   a             the VRAM address the last call accessed through PPUDATA *)
(*                 (0 for every other call)                                *)
(*   addr_writes   write_to_ppu_addr calls since the latches were last     *)
(*                 reset by construction or read_status (2 = two or more)  *)
(*   scroll_writes write_to_scroll calls since then (2 = two or more)      *)
(*   status_reads  whether read_status was ever called                     *)
(*   odd_at_status whether the last read_status found addr.hi_ptr FALSE    *)
(*   since_tick    whether read_status was called after the last tick      *)
(*   run           PPUDATA accesses since the low address byte was written *)
(*   writes        write_to_data calls                                     *)
(*   wa, wv        the VRAM address and the value of the last              *)
(*                 write_to_data call that returned (wa = -1: none yet)    *)
(*   oam_writes    write_to_oam_data calls                                 *)
(*   dots, frames  the dots passed to tick and the tick calls that         *)
(*                 returned true, both counted until MaxFrames frames      *)
(*                 are complete                                            *)
(*   nmi_before    nmi_interrupt as the last write_to_ctrl found it        *)
(*   pha_open      whether a PHA ran and neither a PLA nor a store into    *)
(*                 the stack page $0100-$01ff ran after it                 *)
(*   pha_a, pha_sp register_a and stack_pointer as the last PHA found them *)
(*   sa            the address of cpu.memory the last stack_push or        *)
(*                 stack_pop accessed (-1: none yet)                       *)
(*   mem_writes    Memory::write calls made on cpu.memory directly         *)
(*   mem_pos       the address of the last direct Memory call (-1: none)   *)
(***************************************************************************)
Hist_new ==
    [op |-> "new", a |-> 0, addr_writes |-> 0, scroll_writes |-> 0,
     status_reads |-> FALSE, odd_at_status |-> FALSE, since_tick |-> FALSE,
     run |-> 0, writes |-> 0, wa |-> -1, wv |-> 0, oam_writes |-> 0,
     dots |-> 0, frames |-> 0, nmi_before |-> None,
     pha_open |-> FALSE, pha_a |-> 0, pha_sp |-> 0, sa |-> -1,
     mem_writes |-> 0, mem_pos |-> -1]

Cap2(n) == IF n >= 2 THEN 2 ELSE n

Running == fault = ""

\* write_to_ctrl latching whenever NMI is enabled in VBlank, raised or not
WriteToCtrl_level(value) ==
    /\ Running
    /\ LET before_nmi_status == generate_vblank_nmi(ctrl)
           after             == ctrl_update(value)
       IN  /\ ctrl' = after
           /\ nmi_interrupt' =
                 IF generate_vblank_nmi(after) /\ is_in_vblank(status)
                 THEN 1 ELSE nmi_interrupt
    /\ ret' = None
    /\ hist' = [hist EXCEPT !.op = "write_to_ctrl", !.a = 0,
                            !.nmi_before = nmi_interrupt]
    /\ UNCHANGED <<chr_rom, mirroring, mask, status, oam_addr, scroll, addr, vram,
                   oam_data, line, cycles, palette_table, read_data_buf, fault>>
    /\ UNCHANGED <<cpu, program>>

\* fn write_to_ctrl(&mut self, value: u8)
WriteToCtrl(value) ==
    /\ Running
    /\ LET before_nmi_status == generate_vblank_nmi(ctrl)
           after             == ctrl_update(value)
       IN  /\ ctrl' = after
           /\ nmi_interrupt' =
                 IF ~before_nmi_status /\ generate_vblank_nmi(after)
                                       /\ is_in_vblank(status)
                 THEN 1 ELSE nmi_interrupt
    /\ ret' = None
    /\ hist' = [hist EXCEPT !.op = "write_to_ctrl", !.a = 0,
                            !.nmi_before = nmi_interrupt]
    /\ UNCHANGED <<chr_rom, mirroring, mask, status, oam_addr, scroll, addr, vram,
                   oam_data, line, cycles, palette_table, read_data_buf, fault>>
    /\ UNCHANGED <<cpu, program>>

\* read_status without reset_vblank_status()
ReadStatus_keeps_vblank ==
    /\ Running
    /\ ret' = snapshot(status)
    /\ status' = status
    /\ addr' = Addr_reset_latch(addr)
    /\ scroll' = Scroll_reset_latch(scroll)
    /\ hist' = [hist EXCEPT !.op = "read_status", !.a = 0,
                            !.addr_writes = 0, !.scroll_writes = 0,
                            !.status_reads = TRUE,
                            !.odd_at_status = ~addr.hi_ptr,
                            !.since_tick = TRUE]
    /\ UNCHANGED <<chr_rom, mirroring, ctrl, mask, oam_addr, vram, oam_data, line,
                   cycles, nmi_interrupt, palette_table, read_data_buf, fault>>
    /\ UNCHANGED <<cpu, program>>

\* fn read_status(&mut self) -> u8
ReadStatus ==
    /\ Running
    /\ ret' = snapshot(status)
    /\ status' = reset_vblank_status(status)
    /\ addr' = Addr_reset_latch(addr)
    /\ scroll' = Scroll_reset_latch(scroll)
    /\ hist' = [hist EXCEPT !.op = "read_status", !.a = 0,
                            !.addr_writes = 0, !.scroll_writes = 0,
                            !.status_reads = TRUE,
                            !.odd_at_status = ~addr.hi_ptr,
                            !.since_tick = TRUE]
    /\ UNCHANGED <<chr_rom, mirroring, ctrl, mask, oam_addr, vram, oam_data, line,
                   cycles, nmi_interrupt, palette_table, read_data_buf, fault>>
    /\ UNCHANGED <<cpu, program>>

\* fn write_to_scroll(&mut self, value: u8)
WriteToScroll(value) ==
    /\ Running
    /\ scroll' = Scroll_write(scroll, value)
    /\ ret' = None
    /\ hist' = [hist EXCEPT !.op = "write_to_scroll", !.a = 0,
                            !.scroll_writes = Cap2(@ + 1)]
    /\ UNCHANGED <<chr_rom, mirroring, ctrl, mask, status, oam_addr, addr, vram,
                   oam_data, line, cycles, nmi_interrupt, palette_table,
                   read_data_buf, fault>>
    /\ UNCHANGED <<cpu, program>>

\* fn write_to_ppu_addr(&mut self, value: u8)
WriteToPpuAddr(value) ==
    /\ Running
    /\ LET b == Addr_udpate(addr, value)
       IN  addr' = IF Addr_read(b) > 16383
                   THEN Addr_set(b, Addr_read(b) % 16384)
                   ELSE b
    /\ ret' = None
    /\ hist' = [hist EXCEPT !.op = "write_to_ppu_addr", !.a = 0,
                            !.addr_writes = Cap2(@ + 1),
                            !.run = IF addr.hi_ptr THEN @ ELSE 0]
    /\ UNCHANGED <<chr_rom, mirroring, ctrl, mask, status, oam_addr, scroll, vram,
                   oam_data, line, cycles, nmi_interrupt, palette_table,
                   read_data_buf, fault>>
    /\ UNCHANGED <<cpu, program>>

\* write_to_data without the arm of the four mirrored palette addresses
write_palette_index_nomirror(a) == a - 16128

\* the palette_table index of the arms of write_to_data's match
write_palette_index(a) ==
    IF a \in {16144, 16148, 16152, 16156}     \* 0x3f10 | 0x3f14 | 0x3f18 | 0x3f1c
    THEN (a - 16) - 16128
    ELSE a - 16128

\* the palette_table index of the arms of read_data's match
read_palette_index(a) ==
    IF a \in {16144, 16148, 16152, 16156}
    THEN (a - 16) - 16128
    ELSE a - 16128

\* what write_to_data's match does at address a: the panic it raises ("" for
\* none) and the arrays it leaves
WriteOutcome(a, value) ==
    CASE a <= 8191 ->                         \* println!, nothing is written
            [fault |-> "", vram |-> vram, palette_table |-> palette_table]
      [] a \in 8192..12287 ->
            IF mirror_vram_addr(a) >= VramSize
            THEN [fault |-> "index out of bounds: vram",
                  vram |-> vram, palette_table |-> palette_table]
            ELSE [fault |-> "",
                  vram |-> Store(vram, mirror_vram_addr(a), value),
                  palette_table |-> palette_table]
      [] a \in 12288..16127 ->
            [fault |-> "unimplemented", vram |-> vram,
             palette_table |-> palette_table]
      [] a \in 16128..16383 ->
            IF write_palette_index(a) >= PaletteSize
            THEN [fault |-> "index out of bounds: palette_table",
                  vram |-> vram, palette_table |-> palette_table]
            ELSE [fault |-> "", vram |-> vram,
                  palette_table |-> Store(palette_table, write_palette_index(a), value)]
      [] OTHER ->
            [fault |-> "unexpected access to mirrored space", vram |-> vram,
             palette_table |-> palette_table]

\* fn write_to_data(&mut self, value: u8)
WriteToData(value) ==
    /\ Running
    /\ hist.run < MaxRun
    /\ hist.writes < MaxWrites
    /\ LET a == Addr_read(addr)
           o == WriteOutcome(a, value)
       IN  /\ fault' = o.fault
           /\ vram' = o.vram
           /\ palette_table' = o.palette_table
           \* the increment follows the match: a panic leaves the address
           /\ addr' = IF o.fault = "" THEN increment_vram_addr(addr, ctrl) ELSE addr
           /\ hist' = [hist EXCEPT !.op = "write_to_data", !.a = a,
                                   !.run = @ + 1, !.writes = @ + 1,
                                   !.wa = IF o.fault = "" THEN a ELSE @,
                                   !.wv = IF o.fault = "" THEN value ELSE @]
    /\ ret' = None
    /\ UNCHANGED <<chr_rom, mirroring, ctrl, mask, status, oam_addr, scroll,
                   oam_data, line, cycles, nmi_interrupt, read_data_buf>>
    /\ UNCHANGED <<cpu, program>>

\* what read_data's match does at address a: the panic it raises, the byte
\* it returns and the buffer it leaves
ReadOutcome(a) ==
    CASE a <= 8191 ->
            IF a >= chr_rom.len
            THEN [fault |-> "index out of bounds: chr_rom", result |-> None,
                  buf |-> read_data_buf]
            ELSE [fault |-> "", result |-> read_data_buf, buf |-> ChrRomByte(a)]
      [] a \in 8192..12287 ->
            IF mirror_vram_addr(a) >= VramSize
            THEN [fault |-> "index out of bounds: vram", result |-> None,
                  buf |-> read_data_buf]
            ELSE [fault |-> "", result |-> read_data_buf,
                  buf |-> Cell(vram, mirror_vram_addr(a))]
      [] a \in 12288..16127 ->
            [fault |-> "unimplemented", result |-> None, buf |-> read_data_buf]
      [] a \in 16128..16383 ->
            IF read_palette_index(a) >= PaletteSize
            THEN [fault |-> "index out of bounds: palette_table", result |-> None,
                  buf |-> read_data_buf]
            ELSE [fault |-> "",
                  result |-> Cell(palette_table, read_palette_index(a)),
                  buf |-> read_data_buf]
      [] OTHER ->
            [fault |-> "unexpected access to mirrored space", result |-> None,
             buf |-> read_data_buf]

\* read_data returning the byte it has just loaded into the buffer
ReadData_unbuffered ==
    /\ Running
    /\ hist.run < MaxRun
    /\ LET a == Addr_read(addr)
           o == ReadOutcome(a)
       IN  /\ addr' = increment_vram_addr(addr, ctrl)
           /\ fault' = o.fault
           /\ ret' = IF o.fault = "" /\ a <= 12287 THEN o.buf ELSE o.result
           /\ read_data_buf' = o.buf
           /\ hist' = [hist EXCEPT !.op = "read_data", !.a = a, !.run = @ + 1]
    /\ UNCHANGED <<chr_rom, mirroring, ctrl, mask, status, oam_addr, scroll, vram,
                   oam_data, line, cycles, nmi_interrupt, palette_table>>
    /\ UNCHANGED <<cpu, program>>

\* fn read_data(&mut self) -> u8
ReadData ==
    /\ Running
    /\ hist.run < MaxRun
    /\ LET a == Addr_read(addr)
           o == ReadOutcome(a)
       IN  \* the increment precedes the match: it is done even when the
           \* match panics
           /\ addr' = increment_vram_addr(addr, ctrl)
           /\ fault' = o.fault
           /\ ret' = o.result
           /\ read_data_buf' = o.buf
           /\ hist' = [hist EXCEPT !.op = "read_data", !.a = a, !.run = @ + 1]
    /\ UNCHANGED <<chr_rom, mirroring, ctrl, mask, status, oam_addr, scroll, vram,
                   oam_data, line, cycles, nmi_interrupt, palette_table>>
    /\ UNCHANGED <<cpu, program>>

\* fn has_sprite_hit(&self, cycle: usize) -> bool
has_sprite_hit(cycle) ==
    LET y == Cell(oam_data, 0)
        x == Cell(oam_data, 3)
    IN  (y + 5 = line) /\ x <= cycle /\ show_sprites(mask)

\* tick entering VBlank a scanline early
enters_vblank_240(l) == l = 240

\* if self.line == 241
enters_vblank(l) == l = 241

\* tick starting every scanline at dot 0
scanline_rest_zero(c) == 0

\* self.cycles = self.cycles - 341
scanline_rest(c) == c - 341

\* fn tick(&mut self, cycles: u16) -> bool.  The render:: calls paint the
\* frame, which the model leaves out, and change nothing else.
Tick(n) ==
    /\ Running
    /\ LET c1   == cycles + n
           st1  == IF has_sprite_hit(c1) THEN set_sprite_zero_hit(status, TRUE)
                   ELSE status
           l1   == line + 1
           st2  == IF enters_vblank(l1)
                   THEN set_sprite_zero_hit(set_vblank_status(st1, TRUE), FALSE)
                   ELSE st1
           nmi2 == IF enters_vblank(l1) /\ generate_vblank_nmi(ctrl)
                   THEN 1 ELSE nmi_interrupt
       IN  IF c1 >= 341
           THEN /\ cycles' = scanline_rest(c1)
                /\ IF l1 >= 262
                   THEN /\ line' = 0
                        /\ nmi_interrupt' = None
                        /\ status' = reset_vblank_status(set_sprite_zero_hit(st2, FALSE))
                        /\ ret' = 1
                   ELSE /\ line' = l1
                        /\ nmi_interrupt' = nmi2
                        /\ status' = st2
                        /\ ret' = 0
           ELSE /\ cycles' = c1
                /\ ret' = 0
                /\ UNCHANGED <<line, nmi_interrupt, status>>
    /\ hist' = [hist EXCEPT !.op = "tick", !.a = 0, !.since_tick = FALSE,
                            !.dots = IF hist.frames < MaxFrames THEN @ + n ELSE @,
                            !.frames = IF @ < MaxFrames THEN @ + ret' ELSE @]
    /\ UNCHANGED <<chr_rom, mirroring, ctrl, mask, oam_addr, scroll, addr, vram,
                   oam_data, palette_table, read_data_buf, fault>>
    /\ UNCHANGED <<cpu, program>>

\* fn poll_nmi_interrupt(&mut self) -> Option<u8>
PollNmiInterrupt ==
    /\ Running
    /\ ret' = nmi_interrupt
    /\ nmi_interrupt' = None
    /\ hist' = [hist EXCEPT !.op = "poll_nmi_interrupt", !.a = 0]
    /\ UNCHANGED <<chr_rom, mirroring, ctrl, mask, status, oam_addr, scroll, addr,
                   vram, oam_data, line, cycles, palette_table, read_data_buf, fault>>
    /\ UNCHANGED <<cpu, program>>

(***************************************************************************)
(* cpu.rs: CpuFlags, Memory, CPU.  A step of the CPU is one level of the   *)
(* recursion of CPU::interpret, which runs one instruction of `program`.   *)
(***************************************************************************)
\* bitflags! CpuFlags
CARRY == 1
ZERO == 2
NEGATIV == 128

\* Memory.space: [u8; 0xffff], and Mem::STACK
MemorySize == 65535
STACK == 256

\* CpuFlags::contains / insert / remove of one flag (a single bit)
flags_contains(f, flag) == (f \div flag) % 2 = 1
flags_insert(f, flag) == IF flags_contains(f, flag) THEN f ELSE f + flag
flags_remove(f, flag) == IF flags_contains(f, flag) THEN f - flag ELSE f

\* a | b of two u8
BitOr8(a, b) ==
    LET bit(k) == IF Bit(a, k) = 1 \/ Bit(b, k) = 1 THEN 2 ^ k ELSE 0
    IN  bit(0) + bit(1) + bit(2) + bit(3) + bit(4) + bit(5) + bit(6) + bit(7)

\* CPU::new(); from_bits_truncate(0b00100000) keeps no bit, since bit 5 is
\* no flag of CpuFlags
CPU_new ==
    [register_a |-> 0, register_x |-> 0, register_y |-> 0,
     stack_pointer |-> 255, program_counter |-> 0, flags |-> 0,
     memory |-> << >>]

\* fn set_register_a(&mut self, data: u8).  In Rust | binds tighter than
\* ==, so the test of the second if is (register_a | 0b10000000) == 1.
set_register_a(c, data) ==
    LET z == IF data = 0 THEN flags_insert(c.flags, ZERO)
             ELSE flags_remove(c.flags, ZERO)
        n == IF BitOr8(data, 128) = 1 THEN flags_insert(z, NEGATIV)
             ELSE flags_remove(z, NEGATIV)
    IN  [c EXCEPT !.register_a = data, !.flags = n]

\* fn set_carry_flag(&mut self) / fn clear_carry_flag(&mut self)
set_carry_flag(c) == [c EXCEPT !.flags = flags_insert(@, CARRY)]
clear_carry_flag(c) == [c EXCEPT !.flags = flags_remove(@, CARRY)]

\* stack_push moving the stack pointer up
stack_push_up(c, data) ==
    [c EXCEPT !.memory = Store(@, STACK + c.stack_pointer, data),
              !.stack_pointer = U8(c.stack_pointer + 1)]

\* fn stack_push(&mut self, data: u8); $0100 + SP is always inside space
stack_push(c, data) ==
    [c EXCEPT !.memory = Store(@, STACK + c.stack_pointer, data),
              !.stack_pointer = U8(c.stack_pointer + 255)]   \* wrapping_sub(1)

\* stack_pop adding 1 to the stack pointer without wrapping
stack_pop_nowrap(c) ==
    LET sp == c.stack_pointer + 1
    IN  [cpu |-> [c EXCEPT !.stack_pointer = sp],
         data |-> Cell(c.memory, STACK + sp)]

\* fn stack_pop(&mut self) -> u8, as [cpu, data]
stack_pop(c) ==
    LET sp == U8(c.stack_pointer + 1)                        \* wrapping_add(1)
    IN  [cpu |-> [c EXCEPT !.stack_pointer = sp],
         data |-> Cell(c.memory, STACK + sp)]

\* opscode::OPSCODES_MAP: the byte length of an instruction
OpsLen(op) ==
    CASE op \in {24, 56, 72, 104} -> 1                  \* CLC SEC PHA PLA
      [] op \in {133, 149, 129, 145} -> 2               \* STA zp zp,x (ind,x) (ind),y
      [] op \in {141, 157, 153} -> 3                    \* STA abs abs,x abs,y
      [] op \in {169, 165, 181, 161, 177} -> 2          \* LDA # zp zp,x (ind,x) (ind),y
      [] op \in {173, 189, 185} -> 3                    \* LDA abs abs,x abs,y

\* opscode::OPSCODES_MAP: the addressing mode of an LDA opcode
OpsMode(op) ==
    CASE op = 169 -> "Immediate"
      [] op = 165 -> "ZeroPage"
      [] op = 181 -> "ZeroPage_X"
      [] op = 173 -> "Absolute"
      [] op = 189 -> "Absolute_X"
      [] op = 185 -> "Absolute_Y"
      [] op = 161 -> "Indirect_X"
      [] op = 177 -> "Indirect_Y"

\* the opcodes of the arms of interpret's match
StaOps == {133, 149, 141, 157, 153, 129, 145}
LdaOps == {169, 165, 181, 173, 189, 185, 161, 177}

\* program[i] of the Rust Vec, which counts from 0
ProgramByte(i) == program[i + 1]

\* let begin = self.program_counter as usize
Begin == cpu.program_counter

\* self.program_counter += 1
Started == [cpu EXCEPT !.program_counter = @ + 1]

\* self.program_counter += (ops.len - 1) as u16, after the match
Advance(c) == [c EXCEPT !.program_counter = @ + (OpsLen(ProgramByte(Begin)) - 1)]

\* interpret is entered for the instruction at program_counter: the first
\* call, or the recursive call made while program_counter < program.len()
Fetch(ops) ==
    /\ Running
    /\ Begin < Len(program)
    /\ ProgramByte(Begin) \in ops

\* a + b in an unsigned type of `width` values: where it overflows, a panic
\* with overflow checks (a debug build) and the wrapped sum without them
CheckedAdd(a, b, width) ==
    IF a + b < width
    THEN {[fault |-> "", v |-> a + b]}
    ELSE {[fault |-> "attempt to add with overflow", v |-> 0],
          [fault |-> "", v |-> (a + b) % width]}

\* Memory::read_u16 at a zero-page pointer
Memory_read_u16(c, pos) == Cell(c.memory, pos) + 256 * Cell(c.memory, pos + 1)

\* the address an STA writes, as the set of [fault, v] the build can give;
\* c is the CPU after program_counter += 1
StaAddress(op, c) ==
    LET one  == Begin + 1 < Len(program)        \* program[begin + 1] exists
        two  == Begin + 2 < Len(program)        \* two bytes at begin + 1
        b    == ProgramByte(Begin + 1)
        w    == ProgramByte(Begin + 1) + 256 * ProgramByte(Begin + 2)
        oob  == {[fault |-> "index out of bounds: program", v |-> 0]}
    IN  CASE op = 133 -> IF one THEN {[fault |-> "", v |-> b]} ELSE oob
          [] op = 149 -> IF one THEN CheckedAdd(b, c.register_x, 256) ELSE oob
          [] op = 141 -> IF two THEN {[fault |-> "", v |-> w]} ELSE oob
          [] op = 157 -> IF two THEN CheckedAdd(w, c.register_x, 65536) ELSE oob
          [] op = 153 -> IF two THEN CheckedAdd(w, c.register_y, 65536) ELSE oob
          [] op = 129 ->
                IF one
                THEN {IF p.fault = "" THEN [fault |-> "", v |-> Memory_read_u16(c, p.v)]
                      ELSE p : p \in CheckedAdd(b, c.register_x, 256)}
                ELSE oob
          [] op = 145 ->
                IF one THEN CheckedAdd(Memory_read_u16(c, b), c.register_y, 65536)
                ELSE oob

\* AddressingMode::read_u8, as [fault, v].  The arms of its match name the
\* variants without their AddressingMode:: path and no use brings them into
\* scope, so the first arm, `Immediate => pos`, is a binding that matches
\* every mode.
read_u8(mode, c) ==
    IF c.program_counter < Len(program)
    THEN [fault |-> "", v |-> ProgramByte(c.program_counter)]
    ELSE [fault |-> "index out of bounds: program", v |-> 0]

\* 0x18 CLC
CLC ==
    /\ Fetch({24})
    /\ cpu' = Advance(clear_carry_flag(Started))
    /\ hist' = [hist EXCEPT !.op = "CLC"]
    /\ UNCHANGED <<ppu, fault, ret, program>>

\* 0x38 SEC
SEC ==
    /\ Fetch({56})
    /\ cpu' = Advance(set_carry_flag(Started))
    /\ hist' = [hist EXCEPT !.op = "SEC"]
    /\ UNCHANGED <<ppu, fault, ret, program>>

\* 0x48 PHA
PHA ==
    /\ Fetch({72})
    /\ cpu' = Advance(stack_push(Started, cpu.register_a))
    /\ hist' = [hist EXCEPT !.op = "PHA", !.pha_open = TRUE,
                            !.pha_a = cpu.register_a,
                            !.pha_sp = cpu.stack_pointer,
                            !.sa = STACK + cpu.stack_pointer]
    /\ UNCHANGED <<ppu, fault, ret, program>>

\* 0x68 PLA
PLA ==
    /\ Fetch({104})
    /\ LET p == stack_pop(Started)
       IN  /\ cpu' = Advance(set_register_a(p.cpu, p.data))
           /\ hist' = [hist EXCEPT !.op = "PLA", !.pha_open = FALSE,
                                   !.sa = STACK + p.cpu.stack_pointer]
    /\ UNCHANGED <<ppu, fault, ret, program>>

\* 0x85 0x95 0x8d 0x9d 0x99 0x81 0x91 STA
STA ==
    /\ Fetch(StaOps)
    /\ \E o \in StaAddress(ProgramByte(Begin), Started) :
          /\ IF o.fault # ""
             THEN cpu' = Started /\ fault' = o.fault
             ELSE IF o.v >= MemorySize
             THEN cpu' = Started /\ fault' = "index out of bounds: space"
             ELSE /\ cpu' = Advance([Started EXCEPT
                                       !.memory = Store(@, o.v, cpu.register_a)])
                  /\ fault' = ""
          /\ hist' = [hist EXCEPT !.op = "STA",
                                  !.pha_open = @ /\ ~(o.fault = "" /\ o.v \in 256..511)]
    /\ UNCHANGED <<ppu, ret, program>>

\* 0xa9 0xa5 0xb5 0xad 0xbd 0xb9 0xa1 0xb1 LDA
LDA ==
    /\ Fetch(LdaOps)
    /\ LET data == read_u8(OpsMode(ProgramByte(Begin)), Started)
       IN  IF data.fault # ""
           THEN cpu' = Started /\ fault' = data.fault
           ELSE cpu' = Advance(set_register_a(Started, data.v)) /\ fault' = ""
    /\ hist' = [hist EXCEPT !.op = "LDA"]
    /\ UNCHANGED <<ppu, ret, program>>

\* _ => panic!("Unknown ops code")
UnknownOpsCode ==
    /\ Fetch(0..255 \ ({24, 56, 72, 104} \cup StaOps \cup LdaOps))
    /\ cpu' = Started
    /\ fault' = "Unknown ops code"
    /\ hist' = [hist EXCEPT !.op = "unknown"]
    /\ UNCHANGED <<ppu, ret, program>>

(***************************************************************************)
(* NesPPU::new(chr_rom, mirroring)                                         *)
(***************************************************************************)
\* the fields of NesPPU::new(chr_rom, mirroring), and no call made yet
Constructed(rom, m) ==
    /\ chr_rom = rom
    /\ mirroring = m
    /\ ctrl = 0
    /\ mask = 0
    /\ status = 0
    /\ oam_addr = 0
    /\ scroll = Scroll_new
    /\ addr = Addr_new
    /\ vram = << >>
    /\ oam_data = << >>
    /\ line = 0
    /\ cycles = 0
    /\ nmi_interrupt = None
    /\ palette_table = << >>
    /\ read_data_buf = 0
    /\ fault = ""
    /\ ret = None
    /\ hist = Hist_new

\* a PPU ready for the calls of its registers; the CPU interprets no program
New(rom, m) ==
    /\ Constructed(rom, m)
    /\ cpu = CPU_new
    /\ program = << >>

\* NesPPU::new_empty_rom()
new_empty_rom == New(EmptyRom, "HORIZONTAL")

(***************************************************************************)
(* The bytes the CPU writes in the model.                                  *)
(***************************************************************************)
DataBytes == {102}
ScrollBytes == {17, 34}
IncrementBytes == {0, 4}
CtrlBytes == {0, 128}
TickDots == {341}

\* The CPU program sets the VRAM address to one of the addresses of A, high
\* byte first: the bytes it may write to PPUADDR next.  (The high byte is
\* compared as write_to_ppu_addr leaves it, cut to 6 bits.)
AddrBytes(A) ==
    IF addr.hi_ptr
    THEN {x \div 256 : x \in A}
    ELSE LET lows == {x % 256 : x \in {y \in A : (y \div 256) % 64 = addr.value[1]}}
         IN  IF lows = {} THEN {5} ELSE lows

\* $0005 CHR ROM, $1005 CHR ROM past the empty rom, $6305 (14 bits: $2305)
\* nametable 0, $3305 the nametable mirror, $3f00 $3f10 $3f20 $3fff palette
DataAddresses == {5, 4101, 25349, 13061, 16128, 16144, 16160, 16383}

\* one cell of each of the four nametables
MirrorAddresses == {8965, 9989, 11013, 12037}

(***************************************************************************)
(* Spec: the PPUDATA port.  The program accesses PPUDATA once it has       *)
(* written both bytes of an address.                                       *)
(***************************************************************************)
Init ==
    \/ new_empty_rom
    \/ New(BankRom, "VERTICAL")

Next ==
    \/ \E v \in IncrementBytes : WriteToCtrl(v)
    \/ \E v \in AddrBytes(DataAddresses) : WriteToPpuAddr(v)
    \/ addr.hi_ptr /\ \E v \in DataBytes : WriteToData(v)
    \/ addr.hi_ptr /\ ReadData

Spec == Init /\ [][Next]_vars

(***************************************************************************)
(* SpecMirror: the nametable window $2000-$2fff under each mirroring.      *)
(***************************************************************************)
InitMirror == \E m \in Mirroring : New(EmptyRom, m)

NextMirror ==
    \/ \E v \in IncrementBytes : WriteToCtrl(v)
    \/ \E v \in AddrBytes(MirrorAddresses) : WriteToPpuAddr(v)
    \/ addr.hi_ptr /\ \E v \in DataBytes : WriteToData(v)
    \/ addr.hi_ptr /\ ReadData

SpecMirror == InitMirror /\ [][NextMirror]_vars

(***************************************************************************)
(* SpecLatch: the PPUADDR / PPUSCROLL write latches and PPUSTATUS.         *)
(***************************************************************************)
LatchBytes == {99, 5}

NextLatch ==
    \/ ReadStatus
    \/ \E v \in ScrollBytes : WriteToScroll(v)
    \/ \E v \in LatchBytes : WriteToPpuAddr(v)
    \/ \E v \in DataBytes : WriteToData(v)
    \/ ReadData

SpecLatch == new_empty_rom /\ [][NextLatch]_vars

(***************************************************************************)
(* SpecTick: the scanline engine as the clock arbiter drives it.           *)
(***************************************************************************)
NextTick ==
    \/ \E n \in TickDots : Tick(n)
    \/ ReadStatus
    \/ \E v \in CtrlBytes : WriteToCtrl(v)
    \/ PollNmiInterrupt

SpecTick == new_empty_rom /\ [][NextTick]_vars

(***************************************************************************)
(* Properties of the write latches and of PPUSTATUS.                       *)
(***************************************************************************)

\* C1: PPUADDR and PPUSCROLL share one first/second-write toggle: from reset
\* latches, the PPUADDR write that follows one write_to_scroll lands in the
\* low byte of the VRAM address, and the write_to_scroll that follows one
\* write_to_ppu_addr sets scroll Y.
C1_SharedLatch ==
    [][ /\ \A v \in LatchBytes :
              (hist.scroll_writes = 1 /\ hist.addr_writes = 0 /\ WriteToPpuAddr(v))
                 => addr'.value = <<addr.value[1], v>>
        /\ \A v \in ScrollBytes :
              (hist.addr_writes = 1 /\ hist.scroll_writes = 0 /\ WriteToScroll(v))
                 => (scroll'.scroll_y = v /\ scroll'.scroll_x = scroll.scroll_x)
      ]_vars

\* C2: after read_status, whatever was called before it, the next
\* write_to_ppu_addr sets the high byte of the VRAM address (to the 6 bits
\* that fit 14) and leaves the low byte, and the one after it sets the low
\* byte and leaves the high byte.
C2_StatusResetsLatch ==
    [][ \A v \in LatchBytes :
           (hist.status_reads /\ WriteToPpuAddr(v)) =>
              /\ hist.addr_writes = 0 => addr'.value = <<v % 64, addr.value[2]>>
              /\ hist.addr_writes = 1 => addr'.value = <<addr.value[1], v>>
      ]_vars

\* C2's case: read_status came after an odd number of PPUADDR writes, and
\* the two writes 0x63, 0x05 that followed it made the address $2305
C2_Witness ==
    /\ hist.odd_at_status
    /\ hist.op = "write_to_ppu_addr"
    /\ hist.addr_writes = 2
    /\ addr.hi_ptr
    /\ Addr_read(addr) = 8965

\* C3: read_status returns the status byte as it was before the call, bit 7
\* set iff the VBlank flag was set, and leaves the VBlank flag clear; a
\* read_status with another read_status and no tick before it returns bit 7
\* clear.
C3_StatusRead ==
    [][ ReadStatus =>
           /\ ret' = status
           /\ (Bit(ret', 7) = 1) <=> is_in_vblank(status)
           /\ ~is_in_vblank(status')
           /\ hist.since_tick => Bit(ret', 7) = 0
      ]_vars

\* C3's case: a read_status that returned bit 7 set and left VBlank clear
C3_Witness ==
    /\ hist.op = "read_status"
    /\ Bit(ret, 7) = 1
    /\ ~is_in_vblank(status)
    /\ line >= 241

(***************************************************************************)
(* Properties of the VRAM address and of the PPUDATA port.                 *)
(***************************************************************************)
\* every byte the program of Spec writes to PPUADDR
DataAddrBytes ==
    {x \div 256 : x \in DataAddresses} \cup {x % 256 : x \in DataAddresses} \cup {5}

\* C4: the VRAM address is a 14-bit value in every state; a PPUADDR write
\* of the high byte keeps its low 6 bits (0x63 then 0x05 is $2305), a write
\* of the low byte keeps the high byte, and the increment of a PPUDATA access
\* wraps past $3fff to the low addresses.
C4_Addr14Bit ==
    /\ Addr_read(addr) <= 16383
    /\ [][ /\ Addr_read(addr') <= 16383
           /\ \A v \in DataAddrBytes :
                 WriteToPpuAddr(v) =>
                    addr'.value = IF addr.hi_ptr THEN <<v % 64, addr.value[2]>>
                                  ELSE <<addr.value[1], v>>
           /\ ReadData =>
                 Addr_read(addr') =
                    (Addr_read(addr) + vram_addr_increment(ctrl)) % 16384
           /\ \A v \in DataBytes :
                 (WriteToData(v) /\ fault' = "") =>
                    Addr_read(addr') =
                       (Addr_read(addr) + vram_addr_increment(ctrl)) % 16384
         ]_vars

\* C4's case: the writes 0x63, 0x05 (the only bytes of Spec that give a high
\* byte of 0x23) have left the address $2305
C4_Witness ==
    /\ hist.op = "write_to_ppu_addr"
    /\ addr.hi_ptr
    /\ Addr_read(addr) = 8965

\* the byte stored at an address below $3000: CHR ROM or mirrored VRAM
HasStoredByte(a) ==
    IF a <= 8191 THEN a < chr_rom.len ELSE mirror_vram_addr(a) < VramSize
StoredByte(a) ==
    IF a <= 8191 THEN ChrRomByte(a) ELSE Cell(vram, mirror_vram_addr(a))

C6_PaletteRead ==
    [][ ReadData =>
           LET a == Addr_read(addr)
           IN  (a \in 16128..16383 /\ fault' = "") =>
                  /\ ret' = Cell(palette_table, read_palette_index(a))
                  /\ read_data_buf' = Cell(vram, mirror_vram_addr(a))
      ]_vars

\* the nametable of an address of $2000-$2fff and, by the table of the
\* claim, the physical table of a nametable: 0 0 1 1 horizontal, 0 1 0 1
\* vertical
NameTable(a) == (a - 8192) \div 1024
PhysicalTable(nt) == IF mirroring = "HORIZONTAL" THEN nt \div 2 ELSE nt % 2
PhysicalCell(a) == PhysicalTable(NameTable(a)) * 1024 + (a % 1024)
SameOffset(a) == {8192 + 1024 * nt + (a % 1024) : nt \in 0..3}

\* C7: with HORIZONTAL mirroring $2000+o and $2400+o are one VRAM cell of
\* table 0 and $2800+o and $2c00+o one cell of table 1, with VERTICAL
\* $2000+o and $2800+o are one cell of table 0 and $2400+o and $2c00+o one
\* cell of table 1, for every offset o; a write_to_data through one address
\* stores in the cell of its alias and leaves the cells of the other pair,
\* and a read_data loads what was last written through its alias.
C7_NametableMirroring ==
    /\ mirroring \in {"HORIZONTAL", "VERTICAL"} =>
          \A a \in 8192..12287 : mirror_vram_addr(a) = PhysicalCell(a)
    /\ [][ (mirroring \in {"HORIZONTAL", "VERTICAL"}) =>
              LET a == Addr_read(addr)
              IN  /\ \A v \in DataBytes :
                        (WriteToData(v) /\ a \in 8192..12287) =>
                           /\ fault' = ""
                           /\ \A b \in SameOffset(a) :
                                 Cell(vram', PhysicalCell(b)) =
                                    IF PhysicalTable(NameTable(b)) =
                                       PhysicalTable(NameTable(a))
                                    THEN v
                                    ELSE Cell(vram, PhysicalCell(b))
                  /\ (ReadData /\ a \in 8192..12287 /\ hist.wa \in SameOffset(a)) =>
                        /\ fault' = ""
                        /\ (PhysicalTable(NameTable(hist.wa)) =
                            PhysicalTable(NameTable(a)))
                              => (read_data_buf' = hist.wv)
         ]_vars

\* C7's case: with HORIZONTAL mirroring, a read_data at $2305 has loaded
\* the 0x66 that was written through $2705
C7_Witness ==
    /\ mirroring = "HORIZONTAL"
    /\ hist.op = "read_data"
    /\ hist.a = 8965
    /\ hist.wa = 9989
    /\ hist.wv = 102
    /\ read_data_buf = 102

\* the palette addresses that mirror each other
PaletteMirrors == {16128, 16132, 16136, 16140, 16144, 16148, 16152, 16156}
PaletteMirror(a) == IF a >= 16144 THEN a - 16 ELSE a + 16

\* C8: a write_to_data at $3f10/14/18/1c is observable by read_data at
\* $3f00/04/08/0c and a write at $3f00/04/08/0c by read_data at
\* $3f10/14/18/1c: the write and the read index one palette cell, and a
\* read_data returns what was last written at the mirror of its address.
C8_PaletteMirroring ==
    /\ \A a \in PaletteMirrors :
          /\ write_palette_index(a) = read_palette_index(PaletteMirror(a))
          /\ write_palette_index(a) \in 0..(PaletteSize - 1)
    /\ [][ LET a == Addr_read(addr)
           IN  /\ \A v \in DataBytes :
                     (WriteToData(v) /\ a \in PaletteMirrors) =>
                        /\ fault' = ""
                        /\ Cell(palette_table',
                                read_palette_index(PaletteMirror(a))) = v
               /\ (ReadData /\ a \in PaletteMirrors /\ hist.wa = PaletteMirror(a)) =>
                     /\ fault' = ""
                     /\ ret' = hist.wv
         ]_vars

\* C8's case: read_data at $3f00 has returned the 0x66 written at $3f10
C8_Witness ==
    /\ hist.op = "read_data"
    /\ hist.a = 16128
    /\ hist.wa = 16144
    /\ ret = 102

\* C9: write_to_data and read_data at an address a of $3f20-$3fff complete
\* and access the palette cell of $3f00 + (a mod 32).
C9_PaletteRange ==
    [][ LET a == Addr_read(addr)
        IN  /\ \A v \in DataBytes :
                  (WriteToData(v) /\ a \in 16160..16383) =>
                     /\ fault' = ""
                     /\ Cell(palette_table',
                             read_palette_index(16128 + (a % 32))) = v
            /\ (ReadData /\ a \in 16160..16383) =>
                  /\ fault' = ""
                  /\ ret' = Cell(palette_table, read_palette_index(16128 + (a % 32)))
      ]_vars

\* C10: a PPUDATA access at an address a of $3000-$3eff completes as the
\* access at its mirror a - $1000 in $2000-$2eff.
C10_NametableMirrorRange ==
    [][ LET a == Addr_read(addr)
        IN  /\ \A v \in DataBytes :
                  (WriteToData(v) /\ a \in 12288..16127) =>
                     /\ fault' = ""
                     /\ Cell(vram', mirror_vram_addr(a - 4096)) = v
            /\ (ReadData /\ a \in 12288..16127) =>
                  /\ fault' = ""
                  /\ ret' = read_data_buf
                  /\ read_data_buf' = Cell(vram, mirror_vram_addr(a - 4096))
      ]_vars

(***************************************************************************)
(* SpecCarry: PPUDATA accesses across a page boundary, with either step.   *)
(***************************************************************************)
\* $21ff, the address of test_ppu_vram_reads_cross_page and
\* test_ppu_vram_reads_step_32, and $2305
CarryAddresses == {8703, 8965}

NextCarry ==
    \/ \E v \in IncrementBytes : WriteToCtrl(v)
    \/ \E v \in AddrBytes(CarryAddresses) : WriteToPpuAddr(v)
    \/ addr.hi_ptr /\ \E v \in DataBytes : WriteToData(v)
    \/ addr.hi_ptr /\ ReadData

SpecCarry == new_empty_rom /\ [][NextCarry]_vars

\* C11: a read_data or write_to_data call that returns leaves the VRAM
\* address 1 higher when ctrl bit 2 is clear and 32 higher when it is set,
\* as a 14-bit number (the carry of the low byte goes into the high byte:
\* $21ff + 1 = $2200); so the read_data after a read_data at a is at
\* a + 1 or a + 32 and returns the byte stored at a.
C11_PostIncrement ==
    [][ LET a    == Addr_read(addr)
            step == IF Bit(ctrl, 2) = 0 THEN 1 ELSE 32
        IN  /\ (ReadData /\ fault' = "") =>
                  /\ Addr_read(addr') = (a + step) % 16384
                  /\ hist.op = "read_data" =>
                        /\ a = (hist.a + step) % 16384
                        /\ ret' = Cell(vram, mirror_vram_addr(hist.a))
            /\ \A v \in DataBytes :
                  (WriteToData(v) /\ fault' = "") =>
                     Addr_read(addr') = (a + step) % 16384
      ]_vars

\* C11's case: after 0x66 was written at $21ff, a read_data at $21ff and
\* then one at $2200, which returned the 0x66 and left the address $2201
C11_Witness ==
    /\ hist.op = "read_data"
    /\ hist.wa = 8703
    /\ hist.a = 8704
    /\ ret = 102
    /\ Addr_read(addr) = 8705

(***************************************************************************)
(* Object attribute memory: OAMADDR, OAMDATA and OAM DMA.                  *)
(***************************************************************************)
OamSize == 256

\* fn write_to_oam_addr(&mut self, value: u8)
WriteToOamAddr(value) ==
    /\ Running
    /\ oam_addr' = value
    /\ ret' = None
    /\ hist' = [hist EXCEPT !.op = "write_to_oam_addr", !.a = 0]
    /\ UNCHANGED <<chr_rom, mirroring, ctrl, mask, status, scroll, addr, vram,
                   oam_data, line, cycles, nmi_interrupt, palette_table,
                   read_data_buf, fault>>
    /\ UNCHANGED <<cpu, program>>

\* write_to_oam_data forgetting to advance oam_addr
WriteToOamData_keeps_addr(value) ==
    /\ Running
    /\ hist.oam_writes < MaxOamWrites
    /\ oam_data' = Store(oam_data, oam_addr, value)
    /\ oam_addr' = oam_addr
    /\ ret' = None
    /\ hist' = [hist EXCEPT !.op = "write_to_oam_data", !.a = 0,
                            !.oam_writes = @ + 1]
    /\ UNCHANGED <<chr_rom, mirroring, ctrl, mask, status, scroll, addr, vram,
                   line, cycles, nmi_interrupt, palette_table, read_data_buf,
                   fault>>
    /\ UNCHANGED <<cpu, program>>

\* fn write_to_oam_data(&mut self, value: u8)
WriteToOamData(value) ==
    /\ Running
    /\ hist.oam_writes < MaxOamWrites
    /\ oam_data' = Store(oam_data, oam_addr, value)
    /\ oam_addr' = U8(oam_addr + 1)
    /\ ret' = None
    /\ hist' = [hist EXCEPT !.op = "write_to_oam_data", !.a = 0,
                            !.oam_writes = @ + 1]
    /\ UNCHANGED <<chr_rom, mirroring, ctrl, mask, status, scroll, addr, vram,
                   line, cycles, nmi_interrupt, palette_table, read_data_buf,
                   fault>>
    /\ UNCHANGED <<cpu, program>>

\* fn read_oam_data(&self) -> u8
ReadOamData ==
    /\ Running
    /\ ret' = Cell(oam_data, oam_addr)
    /\ hist' = [hist EXCEPT !.op = "read_oam_data", !.a = 0]
    /\ UNCHANGED <<ppu, fault>>
    /\ UNCHANGED <<cpu, program>>

\* the iterations lo .. hi - 1 of write_oam_dma's loop, run in order (the
\* first half, then the second from what the first left): the OAM and the
\* OAM address they leave, as [oam_data, oam_addr]
RECURSIVE OamDmaLoop(_, _, _, _, _)
OamDmaLoop(mem, a, data, lo, hi) ==
    IF hi - lo = 1
    THEN [oam_data |-> [mem EXCEPT ![a] = data[lo]], oam_addr |-> U8(a + 1)]
    ELSE LET mid   == (lo + hi) \div 2
             first == OamDmaLoop(mem, a, data, lo, mid)
         \* (the test, true of every u8, has TLC evaluate the first half
         \* before it starts the second)
         IN  IF first.oam_addr \in 0..255
             THEN OamDmaLoop(first.oam_data, first.oam_addr, data, mid, hi)
             ELSE first

\* the 256 cells of oam_data, those never written holding their initial 0
OamCells == [j \in 0..(OamSize - 1) |-> Cell(oam_data, j)]

\* write_oam_dma copying to OAM from cell 0 on, whatever oam_addr is
WriteOamDma_from_zero(data) ==
    /\ Running
    /\ oam_data' = OamDmaLoop(OamCells, 0, data, 0, OamSize).oam_data
    /\ oam_addr' = oam_addr
    /\ ret' = None
    /\ hist' = [hist EXCEPT !.op = "write_oam_dma", !.a = 0]
    /\ UNCHANGED <<chr_rom, mirroring, ctrl, mask, status, scroll, addr, vram,
                   line, cycles, nmi_interrupt, palette_table, read_data_buf,
                   fault>>
    /\ UNCHANGED <<cpu, program>>

\* fn write_oam_dma(&mut self, data: &[u8; 256])
WriteOamDma(data) ==
    /\ Running
    /\ LET o == OamDmaLoop(OamCells, oam_addr, data, 0, OamSize)
       IN  /\ oam_data' = o.oam_data
           /\ oam_addr' = o.oam_addr
    /\ ret' = None
    /\ hist' = [hist EXCEPT !.op = "write_oam_dma", !.a = 0]
    /\ UNCHANGED <<chr_rom, mirroring, ctrl, mask, status, scroll, addr, vram,
                   line, cycles, nmi_interrupt, palette_table, read_data_buf,
                   fault>>
    /\ UNCHANGED <<cpu, program>>

\* the OAMADDR values and OAMDATA bytes of test_oam_read_write and
\* test_oam_dma, and the last OAM address
OamAddrBytes == {16, 255}
OamBytes == {102, 119}

\* the page of test_oam_dma ([0x66; 256] with 0x77 first and 0x88 last), and
\* a page whose bytes all differ
DmaPages ==
    { [i \in 0..(OamSize - 1) |-> IF i = 0 THEN 119 ELSE IF i = 255 THEN 136 ELSE 102],
      [i \in 0..(OamSize - 1) |-> 255 - i] }

(***************************************************************************)
(* SpecOam: the CPU's accesses to OAM.                                     *)
(***************************************************************************)
NextOam ==
    \/ \E v \in OamAddrBytes : WriteToOamAddr(v)
    \/ \E v \in OamBytes : WriteToOamData(v)
    \/ ReadOamData
    \/ \E d \in DmaPages : WriteOamDma(d)

SpecOam == new_empty_rom /\ [][NextOam]_vars

\* C12: write_to_oam_data(v) stores v in oam_data[oam_addr], leaves every
\* other OAM cell, and leaves oam_addr one higher, 0xff going to 0x00;
\* read_oam_data returns oam_data[oam_addr] and changes nothing of the PPU.
C12_OamData ==
    [][ /\ \A v \in OamBytes :
              WriteToOamData(v) =>
                 /\ Cell(oam_data', oam_addr) = v
                 /\ \A i \in 0..(OamSize - 1) :
                       i # oam_addr => Cell(oam_data', i) = Cell(oam_data, i)
                 /\ oam_addr' = (IF oam_addr = 255 THEN 0 ELSE oam_addr + 1)
        /\ ReadOamData =>
              /\ ret' = Cell(oam_data, oam_addr)
              /\ UNCHANGED <<ppu, fault>>
      ]_vars

\* C12's case: a write_to_oam_data at OAM address 0xff has stored its byte
\* there and left oam_addr 0x00
C12_Witness ==
    /\ hist.op = "write_to_oam_data"
    /\ oam_addr = 0
    /\ Cell(oam_data, 255) = 119

\* C13: write_oam_dma(data) called with oam_addr = s leaves
\* oam_data[(s + i) mod 256] = data[i] for every i of 0..255 and oam_addr = s.
C13_OamDma ==
    [][ \A d \in DmaPages :
           WriteOamDma(d) =>
              /\ \A i \in 0..(OamSize - 1) :
                    Cell(oam_data', (oam_addr + i) % 256) = d[i]
              /\ oam_addr' = oam_addr
      ]_vars

\* C13's case: test_oam_dma's page copied from OAM address 0x10: its last
\* byte 0x88 is at 0x0f and its first byte 0x77 at 0x10
C13_Witness ==
    /\ hist.op = "write_oam_dma"
    /\ oam_addr = 16
    /\ Cell(oam_data, 15) = 136
    /\ Cell(oam_data, 16) = 119

(***************************************************************************)
(* SpecStall: tick called with one scanline of dots or with the dots of    *)
(* an OAM DMA stall, for as long as the counters are in range.             *)
(***************************************************************************)
\* 341 dots, and the 3 x 513 dots of an OAM DMA stall
StallDots == {341, 1539}

NextStall ==
    \E n \in StallDots : cycles <= 340 /\ line <= 261 /\ Tick(n)

SpecStall == new_empty_rom /\ [][NextStall]_vars

\* C14: in every state cycles is in 0..340 and line is in 0..261, whatever
\* numbers of dots tick was called with.
C14_CountersInRange ==
    /\ cycles \in 0..340
    /\ line \in 0..261

(***************************************************************************)
(* SpecFrame: tick called after every CPU instruction with three dots per  *)
(* CPU cycle, for MaxFrames frames.                                        *)
(***************************************************************************)
\* the dots of an instruction of 2 CPU cycles and of one of 7
InstructionDots == {6, 21}

NextFrame ==
    \E n \in InstructionDots : hist.frames < MaxFrames /\ Tick(n)

SpecFrame == new_empty_rom /\ [][NextFrame]_vars

\* C15: with tick calls of at most 21 dots, the dots passed to tick so far
\* are 341 * (262 * frames + line) + cycles, frames being the tick calls that
\* returned true; and tick returns true exactly on the call that takes line
\* from 261 to 0.
C15_FrameEvery89342 ==
    /\ hist.dots = 341 * (262 * hist.frames + line) + cycles
    /\ [][ \A n \in InstructionDots :
              Tick(n) =>
                 /\ hist'.dots = 341 * (262 * hist'.frames + line') + cycles'
                 /\ (ret' = 1) <=> (line = 261 /\ line' = 0)
         ]_vars

\* C15's case: the tick call that completed the first frame, after 89342
\* dots and those left over in cycles
C15_Witness ==
    /\ hist.op = "tick"
    /\ ret = 1
    /\ hist.frames = 1
    /\ line = 0
    /\ cycles > 0
    /\ hist.dots = 89342 + cycles

(***************************************************************************)
(* SpecScan: the scanline engine with ticks of a part of a scanline and    *)
(* of a whole one, PPUCTRL writes and PPUSTATUS reads.                     *)
(***************************************************************************)
\* 93 dots (31 CPU cycles), which leave the line 8 times of 11, and 341
ScanDots == {93, 341}

NextScan ==
    \/ \E n \in ScanDots : Tick(n)
    \/ ReadStatus
    \/ \E v \in CtrlBytes : WriteToCtrl(v)

SpecScan == new_empty_rom /\ [][NextScan]_vars

\* C16: a tick that takes line to 241 leaves the VBlank flag set and leaves
\* an NMI pending iff the NMI-enable bit of ctrl is set; any other tick
\* neither sets the VBlank flag nor latches an NMI.
C16_VblankEntry ==
    [][ \A n \in ScanDots :
           Tick(n) =>
              IF line' = 241 /\ line # 241
              THEN /\ is_in_vblank(status')
                   /\ (nmi_interrupt' = 1) <=> (Bit(ctrl, 7) = 1)
              ELSE /\ is_in_vblank(status') => is_in_vblank(status)
                   /\ (nmi_interrupt' = 1) => (nmi_interrupt = 1)
      ]_vars

\* C16's case: the tick that entered line 241 with NMI enabled has set
\* VBlank and latched the NMI
C16_Witness ==
    /\ hist.op = "tick"
    /\ line = 241
    /\ cycles < 93
    /\ Bit(ctrl, 7) = 1
    /\ is_in_vblank(status)
    /\ nmi_interrupt = 1

\* C17: the VBlank flag is set only while line is in 241..260, and in every
\* state with line = 261 the VBlank, sprite-0-hit and sprite-overflow flags
\* (bits 7, 6, 5 of the status byte) are clear.
C17_PreRenderClear ==
    /\ is_in_vblank(status) => line \in 241..260
    /\ line = 261 => (Bit(status, 7) = 0 /\ Bit(status, 6) = 0 /\ Bit(status, 5) = 0)

\* C18: a write_to_ctrl that finds the NMI-enable bit clear and sets it
\* while the VBlank flag is set leaves an NMI pending; every other
\* write_to_ctrl leaves the NMI latch as it was.
C18_NmiOnEnable ==
    [][ \A v \in CtrlBytes :
           WriteToCtrl(v) =>
              IF Bit(ctrl, 7) = 0 /\ Bit(v, 7) = 1 /\ is_in_vblank(status)
              THEN nmi_interrupt' = 1
              ELSE nmi_interrupt' = nmi_interrupt
      ]_vars

\* C18's case: a write_to_ctrl in VBlank that found no NMI pending and has
\* latched one
C18_Witness ==
    /\ hist.op = "write_to_ctrl"
    /\ hist.nmi_before = None
    /\ nmi_interrupt = 1
    /\ Bit(ctrl, 7) = 1
    /\ is_in_vblank(status)

(***************************************************************************)
(* SpecCpu: CPU::interpret running a program from program_counter 0.       *)
(***************************************************************************)
\* the programs of the tests of cpu.rs, with each opcode of interpret's
\* match, a store into the stack page, a store at $ffff and an opcode
\* interpret does not know
CpuPrograms ==
    { <<169, 255, 72, 169, 0, 104>>,              \* a9 ff 48 a9 00 68
      <<169, 0, 72, 169, 1, 104>>,                \* a9 00 48 a9 01 68
      <<72, 24, 56, 133, 16, 165, 128, 104>>,     \* 48 18 38 85 10 a5 80 68
      <<72, 141, 255, 1, 104>>,                   \* 48 8d ff 01 68
      <<104>>,                                    \* 68
      <<169, 1, 141, 0, 2, 169, 5, 141, 1, 2, 169, 8, 141, 2, 2>>,
      <<149, 16, 157, 0, 17, 153, 0, 17, 129, 0, 145, 2>>,
                                                  \* 95 10 9d 00 11 99 00 11 81 00 91 02
      <<165, 128, 181, 0, 173, 144, 0, 189, 0, 2, 185, 255, 0, 161, 127, 177, 192>>,
                                                  \* a5 80 b5 00 ad 90 00 bd 00 02 b9 ff 00 a1 7f b1 c0
      <<169, 1, 141, 255, 255, 24>>,              \* a9 01 8d ff ff 18
      <<234>> }                                   \* ea

\* the registers the program starts with
StartA == {0, 100, 255}
StartSP == {255, 0}
StartX == {0, 80}

InitCpu ==
    /\ Constructed(EmptyRom, "HORIZONTAL")
    /\ program \in CpuPrograms
    /\ \E a \in StartA, sp \in StartSP, x \in StartX :
          cpu = [CPU_new EXCEPT !.register_a = a, !.stack_pointer = sp,
                                !.register_x = x, !.register_y = 16]

NextCpu ==
    \/ CLC
    \/ SEC
    \/ PHA
    \/ PLA
    \/ STA
    \/ LDA
    \/ UnknownOpsCode

SpecCpu == InitCpu /\ [][NextCpu]_vars

\* C19: after an LDA or a PLA has put a byte r in register_a, the ZERO flag
\* is set iff r = 0 and the NEGATIV flag is set iff bit 7 of r is set.
C19_LoadFlags ==
    [][ ((LDA \/ PLA) /\ fault' = "") =>
           LET r == cpu'.register_a
           IN  /\ flags_contains(cpu'.flags, ZERO) <=> (r = 0)
               /\ flags_contains(cpu'.flags, NEGATIV) <=> (Bit(r, 7) = 1)
      ]_vars

\* C20: a PLA that follows a PHA, with no other stack instruction and no
\* store into the stack page in between, leaves in register_a the byte the
\* PHA found there and in stack_pointer the value the PHA found.
C20_PushPopRoundTrip ==
    [][ (PLA /\ hist.pha_open) =>
           /\ cpu'.register_a = hist.pha_a
           /\ cpu'.stack_pointer = hist.pha_sp
      ]_vars

\* C20's case: from stack_pointer 0x00, where the push wraps to 0xff, PHA,
\* four instructions that leave the stack, and PLA have restored the 0x64
\* of register_a, over the 0x80 that an LDA had loaded
C20_Witness ==
    /\ hist.op = "PLA"
    /\ program = <<72, 24, 56, 133, 16, 165, 128, 104>>
    /\ cpu.program_counter = 8
    /\ hist.pha_sp = 0
    /\ hist.pha_a = 100
    /\ cpu.register_a = 100
    /\ cpu.stack_pointer = 0

\* the cells of cpu.memory in which m and n differ
MemoryDiff(m, n) == {i \in (DOMAIN m) \cup (DOMAIN n) : Cell(m, i) # Cell(n, i)}

\* C21: PHA writes register_a at $0100 + SP and then SP = (SP - 1) mod 256;
\* PLA sets SP = (SP + 1) mod 256 and then loads register_a from $0100 + SP;
\* neither fails, neither accesses an address outside $0100-$01ff, and no
\* other cell of the memory changes.
C21_StackDiscipline ==
    [][ /\ PHA =>
              /\ fault' = ""
              /\ hist'.sa = 256 + cpu.stack_pointer
              /\ hist'.sa \in 256..511
              /\ Cell(cpu'.memory, hist'.sa) = cpu.register_a
              /\ MemoryDiff(cpu.memory, cpu'.memory) \subseteq {hist'.sa}
              /\ cpu'.stack_pointer = (cpu.stack_pointer + 255) % 256
        /\ PLA =>
              /\ fault' = ""
              /\ cpu'.stack_pointer = (cpu.stack_pointer + 1) % 256
              /\ hist'.sa = 256 + cpu'.stack_pointer
              /\ hist'.sa \in 256..511
              /\ cpu'.register_a = Cell(cpu.memory, hist'.sa)
              /\ MemoryDiff(cpu.memory, cpu'.memory) = {}
      ]_vars

\* C21's case: from stack_pointer 0x00 the PHA of 48 8d ff 01 68 has written
\* the 0x64 of register_a at $0100 and left stack_pointer 0xff, and after a
\* store of 0x64 at $01ff the PLA has wrapped stack_pointer back to 0x00 and
\* read $0100
C21_Witness ==
    /\ hist.op = "PLA"
    /\ program = <<72, 141, 255, 1, 104>>
    /\ hist.pha_sp = 0
    /\ hist.sa = 256
    /\ cpu.stack_pointer = 0
    /\ cpu.register_a = 100
    /\ Cell(cpu.memory, 256) = 100
    /\ Cell(cpu.memory, 511) = 100

\* the opcodes of the arms of interpret's match
SupportedOps == {24, 56, 72, 104} \cup StaOps \cup LdaOps

\* whether p, from its byte i on, is a concatenation of complete
\* instructions of SupportedOps
RECURSIVE CompleteFrom(_, _)
CompleteFrom(p, i) ==
    IF i = Len(p) THEN TRUE
    ELSE IF i > Len(p) THEN FALSE
    ELSE /\ p[i + 1] \in SupportedOps
         /\ CompleteFrom(p, i + OpsLen(p[i + 1]))

\* C22: while interpret runs a program that is a concatenation of complete
\* instructions of CLC, SEC, PHA, PLA, STA and LDA, each instruction ends
\* without a failure and with program_counter advanced by exactly the byte
\* length of the instruction, never past the end of the program; so the
\* run ends, with program_counter equal to the length of the program.
C22_PcAdvance ==
    [][ (NextCpu /\ CompleteFrom(program, 0)) =>
           /\ fault' = ""
           /\ cpu'.program_counter =
                 cpu.program_counter + OpsLen(ProgramByte(cpu.program_counter))
           /\ cpu'.program_counter <= Len(program)
      ]_vars

\* The effective address of an LDA of a mode other than Immediate, as the
\* addressing-mode table defines it from the bytes that follow the opcode;
\* c is the CPU before the instruction.
EffectiveAddress(op, c) ==
    LET pc  == c.program_counter
        b   == ProgramByte(pc + 1)
        w   == ProgramByte(pc + 1) + 256 * ProgramByte(pc + 2)
        zpw(p) == Cell(c.memory, p % 256) + 256 * Cell(c.memory, (p + 1) % 256)
    IN  CASE OpsMode(op) = "ZeroPage"   -> b
          [] OpsMode(op) = "ZeroPage_X" -> (b + c.register_x) % 256
          [] OpsMode(op) = "Absolute"   -> w
          [] OpsMode(op) = "Absolute_X" -> (w + c.register_x) % 65536
          [] OpsMode(op) = "Absolute_Y" -> (w + c.register_y) % 65536
          [] OpsMode(op) = "Indirect_X" -> zpw(b + c.register_x)
          [] OpsMode(op) = "Indirect_Y" -> (zpw(b) + c.register_y) % 65536

\* C23: an LDA that ends loads register_a with the operand byte when its
\* opcode is 0xa9, and with the byte of the CPU memory at the effective
\* address of its addressing mode for every other opcode.
C23_LdaAddressing ==
    [][ (LDA /\ fault' = "") =>
           LET op == ProgramByte(cpu.program_counter)
           IN  cpu'.register_a =
                  IF op = 169 THEN ProgramByte(cpu.program_counter + 1)
                  ELSE Cell(cpu.memory, EffectiveAddress(op, cpu))
      ]_vars

(***************************************************************************)
(* SpecMem: the Memory of a new CPU, written and read through the methods  *)
(* of its Mem implementation, as the tests of cpu.rs do with cpu.memory.   *)
(***************************************************************************)
\* impl Mem for Memory: self.space[pos as usize] = data, as [fault, mem]
Mem_write(mem, pos, data) ==
    IF pos < MemorySize
    THEN [fault |-> "", mem |-> Store(mem, pos, data)]
    ELSE [fault |-> "index out of bounds: space", mem |-> mem]

\* impl Mem for Memory: self.space[pos as usize], as [fault, v]
Mem_read(mem, pos) ==
    IF pos < MemorySize
    THEN [fault |-> "", v |-> Cell(mem, pos)]
    ELSE [fault |-> "index out of bounds: space", v |-> 0]

\* impl Mem for Memory: LittleEndian::read_u16(&self.space[pos as usize..]),
\* as [fault, v]; the slice from pos must hold two bytes
Mem_read_u16(mem, pos) ==
    IF pos + 1 < MemorySize
    THEN [fault |-> "", v |-> Cell(mem, pos) + 256 * Cell(mem, pos + 1)]
    ELSE [fault |-> "index out of bounds: slice shorter than 2", v |-> 0]

\* cpu.memory.write(pos, data)
MemWrite(pos, data) ==
    /\ Running
    /\ hist.mem_writes < MaxMemWrites
    /\ LET r == Mem_write(cpu.memory, pos, data)
       IN  /\ cpu' = [cpu EXCEPT !.memory = r.mem]
           /\ fault' = r.fault
    /\ ret' = None
    /\ hist' = [hist EXCEPT !.op = "Memory::write", !.mem_writes = @ + 1,
                            !.mem_pos = pos]
    /\ UNCHANGED <<ppu, program>>

\* cpu.memory.read(pos)
MemRead(pos) ==
    /\ Running
    /\ LET r == Mem_read(cpu.memory, pos)
       IN  /\ ret' = r.v
           /\ fault' = r.fault
    /\ hist' = [hist EXCEPT !.op = "Memory::read", !.mem_pos = pos]
    /\ UNCHANGED <<ppu, cpu, program>>

\* cpu.memory.read_u16(pos)
MemReadU16(pos) ==
    /\ Running
    /\ LET r == Mem_read_u16(cpu.memory, pos)
       IN  /\ ret' = r.v
           /\ fault' = r.fault
    /\ hist' = [hist EXCEPT !.op = "Memory::read_u16", !.mem_pos = pos]
    /\ UNCHANGED <<ppu, cpu, program>>

\* addresses of the work RAM and of three of its mirrors with the same low
\* 11 bits ($0000 $0800 $1000 $1800, $07ff $0fff $1fff, $0002 $0802), and
\* the last three addresses of the 16-bit space
MemAddresses ==
    {0, 2048, 4096, 6144, 2047, 4095, 8191, 2, 2050, 65533, 65534, 65535}

\* the bytes the tests write
MemBytes == {5, 7}

NextMem ==
    \/ \E pos \in MemAddresses, data \in MemBytes : MemWrite(pos, data)
    \/ \E pos \in MemAddresses : MemRead(pos)
    \/ \E pos \in MemAddresses : MemReadU16(pos)

SpecMem == new_empty_rom /\ [][NextMem]_vars

\* C24: after a write of a byte at an address a of $0000-$1fff, a read of
\* a & 0x07ff, and of every address of $0000-$1fff with the low 11 bits of
\* a, returns that byte.
C24_RamMirrored ==
    [][ \A pos \in MemAddresses, data \in MemBytes :
           (MemWrite(pos, data) /\ pos <= 8191) =>
              \A b \in {pos % 2048} \cup {m \in MemAddresses : m <= 8191} :
                 (b % 2048 = pos % 2048) =>
                    /\ Mem_read(cpu'.memory, b).fault = ""
                    /\ Mem_read(cpu'.memory, b).v = data
      ]_vars

\* C28: Memory::write and Memory::read succeed at every address of
\* $0000-$ffff, and Memory::read_u16 succeeds at every address at which a
\* little-endian word starts, $0000-$fffe, $fffe included.
C28_MemoryCovers ==
    /\ hist.op \in {"Memory::write", "Memory::read"} => fault = ""
    /\ (hist.op = "Memory::read_u16" /\ hist.mem_pos <= 65534) => fault = ""

\* C25: an NMI that is pending stays pending over every call other than
\* poll_nmi_interrupt; poll_nmi_interrupt returns what is pending and leaves
\* nothing pending, so that a second poll_nmi_interrupt returns none.
C25_NmiNeverLost ==
    [][ /\ (nmi_interrupt # None /\ ~PollNmiInterrupt) => nmi_interrupt' = nmi_interrupt
        /\ PollNmiInterrupt => (ret' = nmi_interrupt /\ nmi_interrupt' = None)
      ]_vars

(***************************************************************************)
(* SpecSprite: the scanline engine with sprite 0 placed through OAMADDR    *)
(* and OAMDATA and rendering switched through PPUMASK.                     *)
(***************************************************************************)
\* fn write_to_mask(&mut self, value: u8)
WriteToMask(value) ==
    /\ Running
    /\ mask' = mask_update(value)
    /\ ret' = None
    /\ hist' = [hist EXCEPT !.op = "write_to_mask", !.a = 0]
    /\ UNCHANGED <<chr_rom, mirroring, ctrl, status, oam_addr, scroll, addr, vram,
                   oam_data, line, cycles, nmi_interrupt, palette_table,
                   read_data_buf, fault>>
    /\ UNCHANGED <<cpu, program>>

\* PPUMASK with the background alone, the sprites alone, and both
MaskBytes == {8, 16, 24}
\* OAMADDR of the Y and of the X of sprite 0
SpriteAddrBytes == {0, 3}
\* a Y and X near the top left, and a Y whose line y + 5 is in VBlank
SpriteBytes == {8, 250}
\* a whole scanline a call
SpriteDots == {341}

NextSprite ==
    \/ \E n \in SpriteDots : Tick(n)
    \/ \E v \in MaskBytes : WriteToMask(v)
    \/ \E v \in SpriteAddrBytes : WriteToOamAddr(v)
    \/ \E v \in SpriteBytes : WriteToOamData(v)

SpecSprite == new_empty_rom /\ [][NextSprite]_vars

\* whether the dots c0..c1 of scanline l, which a tick covers, meet the 8 x 8
\* box of sprite 0, whose top left is (oam_data[3], oam_data[0])
SpriteBox(l, c0, c1) ==
    LET y == Cell(oam_data, 0)
        x == Cell(oam_data, 3)
    IN  /\ l \in y..(y + 7)
        /\ \E d \in x..(x + 7) : c0 <= d /\ d <= c1

\* C26: a tick that sets the sprite-0-hit flag of the status starts on a
\* line of 0..239, covers a dot of the box of sprite 0, and finds both the
\* background and the sprites enabled in the mask.
C26_SpriteZeroHit ==
    [][ \A n \in SpriteDots :
           (Tick(n) /\ ~is_sprite_zero_hit(status) /\ is_sprite_zero_hit(status')) =>
              /\ line \in 0..239
              /\ SpriteBox(line, cycles, cycles + n)
              /\ show_background(mask)
              /\ show_sprites(mask)
      ]_vars

\* C27: under each of the mirroring modes, mirror_vram_addr maps every
\* address of $2000-$3eff to an index of the 2 KiB vram, 0..2047.
C27_MirrorIndexInVram ==
    \A a \in 8192..16127 : mirror_vram_addr(a) \in 0..(VramSize - 1)

=============================================================================
